---- MODULE Spec2Model ----
(***************************************************************************)
(* Model of src/vrp_dss/data.py: the archive reconstruction pass           *)
(* (read_archive), vehicle resolution (find_vehicle), location lookup      *)
(* (find_location), the acquisition of the travel matrices                 *)
(* (pull_travel_data_from_bing), their persistence (save_matrix_input_data *)
(* and import_matrix_input_data) and the reload of the archive routes      *)
(* (load_archive_routes).                                                  *)
(*                                                                         *)
(* Python values are records tagged with their class in the field cls, so  *)
(* that the isinstance tests of the __eq__ overloads can be modelled.      *)
(* A reference to a PhysicalLocation or a VehicleType is the 1-based       *)
(* position of the object in the locations / vehicle_types list; None as   *)
(* such a reference is 0.                                                  *)
(***************************************************************************)
EXTENDS Integers, Sequences, FiniteSets, TLC

VARIABLES
    vehicle_types,    \* the list of VehicleType objects
    vehicles,         \* the list of registered Vehicle objects
    demand,           \* demand[i]: the field demand of locations[i]
    sheet,            \* the rows of the Deliveries sheet read so far
    row,              \* read_archive: row
    route,            \* read_archive: route
    routes,           \* read_archive: routes
    total_delivered,  \* read_archive: total_delivered
    stop_ind,         \* read_archive: stop_ind
    removed,          \* history: removed[i] counts the executions of line 286 on locations[i]
    pc,               \* position in the function that runs, or the exception that ended it
    found,            \* the last call of find_vehicle made on its own, with its result
    looked,           \* the last call of find_location made on its own, with its result
    places,           \* pull_travel_data_from_bing: len(locations)
    start_row,        \* pull_travel_data_from_bing: start_row
    distances,        \* the distance matrix being built, or given to save_matrix_input_data
    times,            \* the time matrix being built, or given to save_matrix_input_data
    requests,         \* the requests posted to the mapping service so far
    responses,        \* the responses received from the mapping service so far
    book,             \* the sheets Distances and Times of the workbook
    imported,         \* what import_matrix_input_data returned
    str_dict,         \* load_archive_routes: str_dict, the persisted routes
    int_dict          \* load_archive_routes: int_dict, the mapping returned

\* the variables of the functions other than read_archive and find_vehicle
beyond_archive == <<looked, places, start_row, distances, times, requests, responses,
                    book, imported, str_dict, int_dict>>

vars == <<vehicle_types, vehicles, demand, sheet, row, route, routes,
          total_delivered, stop_ind, removed, pc, found, beyond_archive>>

(* ------------------------------ bounds --------------------------------- *)

\* number of rows of the Deliveries sheet that a run reads at most
MaxLines == 3
\* the largest summed demand of one row
MaxDemand == 2
\* the longest list of locations given to find_location on its own
MaxLookup == 3
MaxPlaces == 2
MaxStops == 3

(* --------------------------- python values ----------------------------- *)

None == [cls |-> "NoneType"]
PyStr(s) == [cls |-> "str", value |-> s]
PyInt(n) == [cls |-> "int", value |-> n]
\* the reference None where a list position is expected
NoneRef == 0
\* math.inf as the start value of lowest_diff
inf == -1

abs(n) == IF n < 0 THEN -n ELSE n

RECURSIVE SumDelivered(_)
SumDelivered(stops) ==
    IF stops = <<>> THEN 0 ELSE Head(stops).delivered + SumDelivered(Tail(stops))

(* ------------------------------ classes -------------------------------- *)

VehicleType(data_index, capacity) ==
    [cls |-> "VehicleType", data_index |-> data_index, capacity |-> capacity,
     vehicles_used |-> 0]

Vehicle(name, vehicle_type) ==
    [cls |-> "Vehicle", name |-> name, vehicle_type |-> vehicle_type]

\* Vehicle.__eq__: only another Vehicle can be equal, by name
Vehicle__eq__(self, other) ==
    IF other.cls = "Vehicle" THEN other.name = self.name ELSE FALSE

PhysicalLocation(data_index, name, store_ids) ==
    [cls |-> "PhysicalLocation", data_index |-> data_index, name |-> name,
     store_ids |-> store_ids]

\* int(s) for the strings that occur as cell values; a string outside the
\* domain raises ValueError
int_of_str ==
    [s \in {"11", "12", "21", "99"} |->
        CASE s = "11" -> 11 [] s = "12" -> 12 [] s = "21" -> 21 [] s = "99" -> 99]

\* PhysicalLocation.__eq__: by name against a location, by membership of the
\* store code against an int, by membership of int(other) against a str
PhysicalLocation__eq__(self, other) ==
    IF other.cls = "PhysicalLocation" THEN other.name = self.name
    ELSE IF other.cls = "int"
         THEN \E k \in 1..Len(self.store_ids) : self.store_ids[k] = other.value
    ELSE IF other.cls = "str"
         THEN IF other.value \in DOMAIN int_of_str
              THEN \E k \in 1..Len(self.store_ids) :
                      self.store_ids[k] = int_of_str[other.value]
              ELSE FALSE
         ELSE FALSE

Stop(location, delivered) == [location |-> location, delivered |-> delivered]

Route(code, vehicle) ==
    [cls |-> "Route", code |-> code, vehicle |-> vehicle, stops |-> <<>>]

(* ----------------------------- registries ------------------------------ *)

\* the list built by read_locations: the depot first, then the sheet's rows
locations ==
    << PhysicalLocation(0, "Depot", <<>>),
       PhysicalLocation(1, "Aurora", <<11, 12>>),
       PhysicalLocation(2, "Bergvliet", <<21>>) >>

\* store codes found in column B; 99 belongs to no location
StoreCodes == {11, 21, 99}

\* route codes found in column D; two codes give every pattern of boundaries
RouteCodes == {1, 2}

\* summed demands of a row: nothing, one pallet, several pallets
Demands == {0, 1, MaxDemand}

\* what read_vehicles returns: types get data_index = position - 1, and a
\* vehicle refers to a type of the list, so no type means no vehicle
Fleet(capacities, fleet) ==
    [vehicle_types |-> [i \in 1..Len(capacities) |-> VehicleType(i - 1, capacities[i])],
     vehicles |-> [i \in 1..Len(fleet) |-> Vehicle(fleet[i][1], fleet[i][2])]]

\* fleets of the archive pass
ArchiveFleets ==
    { Fleet(<<>>, <<>>),
      Fleet(<<1, 3>>, << <<"HORSE1", 1>>, <<"TRAIL2", 2>> >>) }

\* cells J, K and P of a row: horse code, trailer code, load carried
ArchiveVehicleCells ==
    { <<"HORSE1", "TRAIL9", 3>>, <<"HORSE9", "TRAIL2", 1>> }

(* ---------------------------- find_location ---------------------------- *)

\* the position of the last element that is equal
locations_index_last(list, value) ==
    IF \E i \in 1..Len(list) : PhysicalLocation__eq__(list[i], value)
    THEN CHOOSE i \in 1..Len(list) :
            /\ PhysicalLocation__eq__(list[i], value)
            /\ \A j \in (i + 1)..Len(list) : ~PhysicalLocation__eq__(list[j], value)
    ELSE 0

\* list.index with the element's __eq__; 0 stands for ValueError
locations_index(list, value) ==
    IF \E i \in 1..Len(list) : PhysicalLocation__eq__(list[i], value)
    THEN CHOOSE i \in 1..Len(list) :
            /\ PhysicalLocation__eq__(list[i], value)
            /\ \A j \in 1..(i - 1) : ~PhysicalLocation__eq__(list[j], value)
    ELSE 0

\* a lookup that falls back on the first location of the list
find_location_default(store_code, locs) ==
    LET i == locations_index(locs, store_code)
    IN  IF i # 0 THEN i ELSE 1

find_location(store_code, locs) ==
    LET i == locations_index(locs, store_code)
    IN  IF i # 0 THEN i ELSE NoneRef

(* ----------------------------- find_vehicle ---------------------------- *)

vehicles_index(list, value) ==
    IF \E i \in 1..Len(list) : Vehicle__eq__(list[i], value)
    THEN CHOOSE i \in 1..Len(list) :
            /\ Vehicle__eq__(list[i], value)
            /\ \A j \in 1..(i - 1) : ~Vehicle__eq__(list[j], value)
    ELSE 0

\* diff < lowest_diff, with lowest_diff starting at math.inf
DiffLowerOrEqual(diff, lowest_diff) == lowest_diff = inf \/ diff <= lowest_diff
DiffLower(diff, lowest_diff) == lowest_diff = inf \/ diff < lowest_diff

\* the scan over vehicle_types; closest_type stays None if the list is empty
RECURSIVE ClosestScan(_, _, _, _, _)
ClosestScan(types, carried, i, lowest_diff, closest_type) ==
    IF i > Len(types) THEN closest_type
    ELSE LET diff == abs(types[i].capacity - carried)
         IN  IF DiffLower(diff, lowest_diff)
             THEN ClosestScan(types, carried, i + 1, diff, i)
             ELSE ClosestScan(types, carried, i + 1, lowest_diff, closest_type)

closest_type_of(types, carried) == ClosestScan(types, carried, 1, inf, NoneRef)

find_vehicle(horse, trailer, carried, vehs, types) ==
    LET h == vehicles_index(vehs, horse)
        t == vehicles_index(vehs, trailer)
    IN  IF h # 0 THEN vehs[h]
        ELSE IF t # 0 THEN vehs[t]
        ELSE Vehicle(horse.value, closest_type_of(types, carried))

(* ----------------------------- read_archive ---------------------------- *)

\* one row of the Deliveries sheet: route code (D), store code (B) and the sum
\* of the three parsed demand cells (M, N, O); the vehicle cells (J, K, P) of
\* a row are read only when the row opens a route
Rows == [code : RouteCodes, store : StoreCodes, demand : Demands]

\* the row is merged if the last stop of the list is at its location
StopsAfterLastCompared(stops, line) ==
    LET location == find_location(PyInt(line.store), locations)
    IN  IF location = NoneRef THEN stops
        ELSE IF Len(stops) > 0
                /\ PhysicalLocation__eq__(locations[stops[Len(stops)].location],
                                          locations[location])
             THEN [stops EXCEPT ![Len(stops)].delivered = @ + line.demand]
             ELSE <<Stop(location, line.demand)>> \o stops

\* a new stop is put at the end of the list
StopsAfterAppended(stops, line) ==
    LET location == find_location(PyInt(line.store), locations)
    IN  IF location = NoneRef THEN stops
        ELSE IF Len(stops) > 0
                /\ PhysicalLocation__eq__(locations[stops[1].location], locations[location])
             THEN [stops EXCEPT ![1].delivered = @ + line.demand]
             ELSE stops \o <<Stop(location, line.demand)>>

\* the row always gets a stop of its own
StopsAfterNoMerge(stops, line) ==
    LET location == find_location(PyInt(line.store), locations)
    IN  IF location = NoneRef THEN stops
        ELSE <<Stop(location, line.demand)>> \o stops

\* lines 304-334: the stops of the open route after the row
StopsAfter(stops, line) ==
    LET location == find_location(PyInt(line.store), locations)
    IN  IF location = NoneRef THEN stops
        ELSE IF Len(stops) > 0
                /\ PhysicalLocation__eq__(locations[stops[1].location], locations[location])
             THEN [stops EXCEPT ![1].delivered = @ + line.demand]
             ELSE <<Stop(location, line.demand)>> \o stops

\* the accumulator is overwritten instead of added to
DemandAfterAssigned(dem, line) ==
    LET location == find_location(PyInt(line.store), locations)
    IN  IF location = NoneRef THEN dem
        ELSE [dem EXCEPT ![location] = line.demand]

\* line 326: the demand accumulators after the row
DemandAfter(dem, line) ==
    LET location == find_location(PyInt(line.store), locations)
    IN  IF location = NoneRef THEN dem
        ELSE [dem EXCEPT ![location] = @ + line.demand]

\* lines 297-300: the route opened for a row
NewRoute(line, cells) ==
    Route(line.code,
          find_vehicle(PyStr(cells[1]), PyStr(cells[2]), cells[3],
                       vehicles, vehicle_types))

\* the other functions have not been called
BeyondArchiveIdle ==
    /\ looked = None
    /\ places = 0
    /\ start_row = 0
    /\ distances = <<>>
    /\ times = <<>>
    /\ requests = <<>>
    /\ responses = <<>>
    /\ book = None
    /\ imported = None
    /\ str_dict = None
    /\ int_dict = None

Init ==
    /\ \E f \in ArchiveFleets :
          /\ vehicle_types = f.vehicle_types
          /\ vehicles = f.vehicles
    /\ demand = [i \in 1..Len(locations) |-> 0]
    /\ sheet = <<>>
    /\ row = 2
    /\ route = None
    /\ routes = <<>>
    /\ total_delivered = 0
    /\ stop_ind = 0
    /\ removed = [i \in 1..Len(locations) |-> 0]
    /\ pc = "while"
    /\ found = None
    /\ BeyondArchiveIdle

\* line 301: the type of the route's vehicle is counted once
CountedNot(types, r) == types
Counted(types, r) ==
    [types EXCEPT ![r.vehicle.vehicle_type].vehicles_used = @ + 1]

\* line 301 raises AttributeError if the vehicle's type is None
TypeMissingNever(r) == FALSE
TypeMissing(r) == r.vehicle.vehicle_type = NoneRef

\* lines 297-336 for the row just read: open a route, count its vehicle, and
\* handle the row's location; a vehicle without type ends the run with an
\* AttributeError at line 301
OpenRouteAndHandle(line, cells) ==
    LET r == NewRoute(line, cells)
    IN  IF TypeMissing(r)
        THEN /\ pc' = "AttributeError"
             /\ route' = r
             /\ UNCHANGED <<vehicle_types, demand, row>>
        ELSE /\ vehicle_types' = Counted(vehicle_types, r)
             /\ route' = [r EXCEPT !.stops = StopsAfter(<<>>, line)]
             /\ demand' = DemandAfter(demand, line)
             /\ row' = row + 1
             /\ pc' = "while"

\* first row of the sheet: route is None
ReadFirstRow(line, cells) ==
    /\ pc = "while"
    /\ row - 2 < MaxLines
    /\ route = None
    /\ sheet' = Append(sheet, line)
    /\ OpenRouteAndHandle(line, cells)
    /\ UNCHANGED <<vehicles, routes, total_delivered, stop_ind, removed, found,
                   beyond_archive>>

\* a row with the code of the open route
ReadSameRoute(line) ==
    /\ pc = "while"
    /\ row - 2 < MaxLines
    /\ route # None
    /\ line.code = route.code
    /\ sheet' = Append(sheet, line)
    /\ route' = [route EXCEPT !.stops = StopsAfter(route.stops, line)]
    /\ demand' = DemandAfter(demand, line)
    /\ row' = row + 1
    /\ UNCHANGED <<vehicle_types, vehicles, routes, total_delivered, stop_ind, removed,
                   pc, found, beyond_archive>>

\* a row with another code: lines 279-280, entering the overflow loop
ReadOtherRoute(line) ==
    /\ pc = "while"
    /\ row - 2 < MaxLines
    /\ route # None
    /\ line.code # route.code
    /\ sheet' = Append(sheet, line)
    /\ total_delivered' = SumDelivered(route.stops)
    /\ stop_ind' = 0
    /\ pc' = "overflow"
    /\ UNCHANGED <<vehicle_types, vehicles, demand, row, route, routes, removed, found,
                   beyond_archive>>

\* the loop condition of line 281
OverCapacityOrAtCapacity(total, capacity) == total >= capacity
OverCapacityByTwo(total, capacity) == total > capacity + 1
OverCapacity(total, capacity) == total > capacity

\* the guard of line 283
MayDecrementAlways(stop) == TRUE
MayDecrement(stop) == stop.delivered > 1

\* line 286
demand_less_kept(dem, location) == dem
demand_less(dem, location) == [dem EXCEPT ![location] = @ - 1]

\* line 288
next_stop_ind_same(ind, n) == ind
next_stop_ind(ind, n) == (ind + 1) % n

\* one iteration of the loop of lines 281-288
OverflowStep ==
    /\ pc = "overflow"
    /\ OverCapacity(total_delivered, vehicle_types[route.vehicle.vehicle_type].capacity)
    /\ IF Len(route.stops) = 0
       THEN /\ pc' = "IndexError"
            /\ UNCHANGED <<route, demand, total_delivered, stop_ind, removed>>
       ELSE /\ IF MayDecrement(route.stops[stop_ind + 1])
               THEN /\ route' = [route EXCEPT !.stops[stop_ind + 1].delivered = @ - 1]
                    /\ demand' = demand_less(demand, route.stops[stop_ind + 1].location)
                    /\ removed' = [removed EXCEPT ![route.stops[stop_ind + 1].location] = @ + 1]
                    /\ total_delivered' = total_delivered - 1
               ELSE UNCHANGED <<route, demand, total_delivered, removed>>
            /\ stop_ind' = next_stop_ind(stop_ind, Len(route.stops))
            /\ pc' = pc
    /\ UNCHANGED <<vehicle_types, vehicles, sheet, row, routes, found, beyond_archive>>

\* the route is put before the routes of its type
CommittedFirst(rs, r) ==
    LET key == vehicle_types[r.vehicle.vehicle_type].data_index
    IN  IF key \in DOMAIN rs /\ rs[key] # <<>>
        THEN [rs EXCEPT ![key] = <<r>> \o @]
        ELSE [k \in (DOMAIN rs) \cup {key} |-> IF k = key THEN <<r>> ELSE rs[k]]

\* lines 289-291: the mapping after the route is stored under its type
Committed(rs, r) ==
    LET key == vehicle_types[r.vehicle.vehicle_type].data_index
    IN  IF key \in DOMAIN rs /\ rs[key] # <<>>
        THEN [rs EXCEPT ![key] = Append(@, r)]
        ELSE [k \in (DOMAIN rs) \cup {key} |-> IF k = key THEN <<r>> ELSE rs[k]]

\* the loop of lines 281-288 is left: store the route, then lines 297-336
\* for the row that closed it
CommitAndOpen(cells) ==
    /\ pc = "overflow"
    /\ ~OverCapacity(total_delivered, vehicle_types[route.vehicle.vehicle_type].capacity)
    /\ routes' = Committed(routes, route)
    /\ OpenRouteAndHandle(sheet[Len(sheet)], cells)
    /\ total_delivered' = 0
    /\ stop_ind' = 0
    /\ UNCHANGED <<vehicles, sheet, removed, found, beyond_archive>>

\* column A of the next row is empty: line 338
ReturnRoutes ==
    /\ pc = "while"
    /\ pc' = "return"
    /\ UNCHANGED <<vehicle_types, vehicles, demand, sheet, row, route, routes,
                   total_delivered, stop_ind, removed, found, beyond_archive>>

Next ==
    \/ \E line \in Rows, cells \in ArchiveVehicleCells : ReadFirstRow(line, cells)
    \/ \E line \in Rows : ReadSameRoute(line)
    \/ \E line \in Rows : ReadOtherRoute(line)
    \/ OverflowStep
    \/ \E cells \in ArchiveVehicleCells : CommitAndOpen(cells)
    \/ ReturnRoutes

Spec == Init /\ [][Next]_vars

(* ------------------------ find_vehicle on its own ---------------------- *)

\* fleets, codes and loads for calls of find_vehicle
CallFleets ==
    { Fleet(<<>>, <<>>),
      Fleet(<<10, 20, 30>>, << <<"HORSE1", 1>>, <<"TRAIL2", 2>> >>),
      Fleet(<<30, 20, 10>>, << <<"HORSE1", 1>>, <<"TRAIL2", 2>> >>),
      Fleet(<<20, 20>>, << <<"TRAIL2", 2>>, <<"HORSE1", 1>> >>) }
CallCodes == {"HORSE1", "TRAIL2", "HORSE9"}
CallLoads == {0, 15, 18, 20, 25, 33}

InitCall ==
    /\ \E f \in CallFleets :
          /\ vehicle_types = f.vehicle_types
          /\ vehicles = f.vehicles
    /\ demand = [i \in 1..Len(locations) |-> 0]
    /\ sheet = <<>>
    /\ row = 2
    /\ route = None
    /\ routes = <<>>
    /\ total_delivered = 0
    /\ stop_ind = 0
    /\ removed = [i \in 1..Len(locations) |-> 0]
    /\ pc = "find_vehicle"
    /\ found = None
    /\ BeyondArchiveIdle

\* find_vehicle(horse, trailer, carried, vehicles, vehicle_types)
CallFindVehicle(horse, trailer, carried) ==
    /\ pc = "find_vehicle"
    /\ found' = [cls |-> "call", horse |-> horse, trailer |-> trailer, carried |-> carried,
                 result |-> find_vehicle(PyStr(horse), PyStr(trailer), carried,
                                         vehicles, vehicle_types)]
    /\ UNCHANGED <<vehicle_types, vehicles, demand, sheet, row, route, routes,
                   total_delivered, stop_ind, removed, pc, beyond_archive>>

NextCall ==
    \E horse \in CallCodes, trailer \in CallCodes, carried \in CallLoads :
        CallFindVehicle(horse, trailer, carried)

SpecCall == InitCall /\ [][NextCall]_vars

(* ------------------------ find_location on its own --------------------- *)

\* locations that lists are made of; the store code 12 is held by two of
\* them, 21 by two others
LookupPool ==
    { PhysicalLocation(0, "Depot", <<>>),
      PhysicalLocation(1, "Aurora", <<11, 12>>),
      PhysicalLocation(2, "Bergvliet", <<12, 21>>),
      PhysicalLocation(3, "Claremont", <<21>>) }

LookupLists == UNION {[1..n -> LookupPool] : n \in 0..MaxLookup}

\* cell values given as store code
LookupCodes ==
    { PyInt(11), PyInt(12), PyInt(21), PyInt(99), PyStr("12"), PyStr("C/S"), None }

InitLookup ==
    /\ vehicle_types = <<>>
    /\ vehicles = <<>>
    /\ demand = [i \in 1..Len(locations) |-> 0]
    /\ sheet = <<>>
    /\ row = 2
    /\ route = None
    /\ routes = <<>>
    /\ total_delivered = 0
    /\ stop_ind = 0
    /\ removed = [i \in 1..Len(locations) |-> 0]
    /\ pc = "find_location"
    /\ found = None
    /\ BeyondArchiveIdle

\* find_location(store_code, locations)
CallFindLocation(store_code, locs) ==
    /\ pc = "find_location"
    /\ looked = None
    /\ looked' = [cls |-> "call", store_code |-> store_code, locations |-> locs,
                  result |-> find_location(store_code, locs)]
    /\ UNCHANGED <<vehicle_types, vehicles, demand, sheet, row, route, routes,
                   total_delivered, stop_ind, removed, pc, found,
                   places, start_row, distances, times, requests, responses,
                   book, imported, str_dict, int_dict>>

NextLookup ==
    \E store_code \in LookupCodes, locs \in LookupLists : CallFindLocation(store_code, locs)

SpecLookup == InitLookup /\ [][NextLookup]_vars

(* ---------------------- pull_travel_data_from_bing --------------------- *)

\* line 511
max_pairs == 2500

\* len(locations) of the runs; locations are named by their index 0..n-1,
\* which stands for their coordinates in a request
PlaceCounts == {0, 1, 2, 3, 4, 5, 51, 52, 2501}

min(a, b) == IF a < b THEN a ELSE b

\* line 513: floor(max_pairs / len(locations))
rows_per_call_up(n) == (max_pairs + n - 1) \div n
rows_per_call(n) == max_pairs \div n

\* line 514
TooManyLocationsNever(rows) == FALSE
TooManyLocations(rows) == rows = 0

\* line 528
end_row(start, n) == min(start + rows_per_call(n), n)

\* the indices of a slice locations[from:to] of a list of n locations
Slice(from, to, n) == [k \in 1..(min(to, n) - min(from, n)) |-> min(from, n) + k - 1]

\* lines 531-538: the request body
post_body(start, n) ==
    [origins |-> Slice(start, end_row(start, n), n),
     destinations |-> Slice(0, n, n),
     travelMode |-> "driving"]

\* what the mapping service knows: distance and duration in minutes from the
\* location with index o to the one with index d
ServiceDistance(o, d) == IF o = d THEN 0 ELSE 100 * o + d + 1
ServiceDuration(o, d) == IF o = d THEN 0 ELSE 7 * o + 3 * d + 1

\* the results of a request with the origins listed in the given order, each
\* with all destinations in turn
Enumerated(req, order) ==
    LET n == Len(req.destinations)
    IN  [p \in 1..(Len(order) * n) |->
            LET k == order[((p - 1) \div n) + 1]
                j == (p - 1) % n
            IN  [originIndex |-> k, destinationIndex |-> j,
                 travelDistance |-> ServiceDistance(req.origins[k + 1], req.destinations[j + 1]),
                 travelDuration |-> ServiceDuration(req.origins[k + 1], req.destinations[j + 1])]]

Response(statusCode, results) == [statusCode |-> statusCode, results |-> results]

\* the responses the service may give to a request: the origin-major list of
\* results, that list with the origins in reverse, with its last result
\* missing, with one result too many, with a destination index off by one at
\* the start, the middle or the end, and two failures
ResponsesTo(req) ==
    LET m == Len(req.origins)
        good == Enumerated(req, [k \in 1..m |-> k - 1])
        size == Len(good)
        off(p) == [good EXCEPT ![p].destinationIndex = @ + 1]
    IN  { Response(200, good),
          Response(200, Enumerated(req, [k \in 1..m |-> m - k])),
          Response(200, SubSeq(good, 1, size - 1)),
          Response(200, Append(good, good[size])),
          Response(500, <<>>),
          Response(429, good) }
        \cup {Response(200, off(p)) : p \in {1, (size + 1) \div 2, size}}

\* line 547
SucceededAlways(response) == TRUE
Succeeded(response) == response.statusCode = 200

\* lines 562-563
IndexMismatchNever(result, destination_index) == FALSE
IndexMismatch(result, destination_index) == result.destinationIndex # destination_index

\* line 571: minutes to hours, as the fraction minutes / 60
HoursUnconverted(minutes) == <<minutes, 1>>
Hours(minutes) == <<minutes, 60>>

\* lines 554-573: the first position of the scan at which results has no
\* entry or an entry with another destination index; 0 if there is none
FirstBad(results, m, n) ==
    LET Bad(p) == p > Len(results) \/ IndexMismatch(results[p], (p - 1) % n)
    IN  IF \E p \in 1..(m * n) : Bad(p)
        THEN CHOOSE p \in 1..(m * n) : Bad(p) /\ \A q \in 1..(p - 1) : ~Bad(q)
        ELSE 0

\* lines 575-576: the rows of the first m origins of the results
DistanceRows(results, m, n) ==
    [k \in 1..m |-> [j \in 1..n |-> results[(k - 1) * n + j].travelDistance]]
TimeRows(results, m, n) ==
    [k \in 1..m |-> [j \in 1..n |-> Hours(results[(k - 1) * n + j].travelDuration)]]

\* line 577
AfterBatchAgain(start, n) == start
AfterBatch(start, n) == end_row(start, n)

\* line 541: the post returns with the response, nothing is posted meanwhile
MayPostPipelined(p) == p \in {"post", "wait"}
MayPost(p) == p = "post"

InitPull ==
    /\ vehicle_types = <<>>
    /\ vehicles = <<>>
    /\ demand = [i \in 1..Len(locations) |-> 0]
    /\ sheet = <<>>
    /\ row = 2
    /\ route = None
    /\ routes = <<>>
    /\ total_delivered = 0
    /\ stop_ind = 0
    /\ removed = [i \in 1..Len(locations) |-> 0]
    /\ found = None
    /\ looked = None
    /\ places \in PlaceCounts
    /\ start_row = 0
    /\ distances = <<>>
    /\ times = <<>>
    /\ requests = <<>>
    /\ responses = <<>>
    /\ book = None
    /\ imported = None
    /\ str_dict = None
    /\ int_dict = None
    /\ pc = "pull"

\* lines 511-518
EnterPull ==
    /\ pc = "pull"
    /\ pc' = IF places = 0 THEN "ZeroDivisionError"
             ELSE IF TooManyLocations(rows_per_call(places)) THEN "ValueError"
             ELSE "post"
    /\ UNCHANGED <<vehicle_types, vehicles, demand, sheet, row, route, routes,
                   total_delivered, stop_ind, removed, found, looked, places, start_row,
                   distances, times, requests, responses, book, imported, str_dict,
                   int_dict>>

\* lines 523-542: another batch is due and its request is posted
PostRequest ==
    /\ MayPost(pc)
    /\ start_row < places
    /\ requests' = Append(requests, post_body(start_row, places))
    /\ pc' = "wait"
    /\ UNCHANGED <<vehicle_types, vehicles, demand, sheet, row, route, routes,
                   total_delivered, stop_ind, removed, found, looked, places, start_row,
                   distances, times, responses, book, imported, str_dict, int_dict>>

\* lines 546-581: the response arrives and is gone through
ReceiveResponse(response) ==
    /\ pc = "wait"
    /\ responses' = Append(responses, response)
    /\ LET m == Len(requests[Len(requests)].origins)
           bad == FirstBad(response.results, m, places)
           done == IF bad = 0 THEN m ELSE (bad - 1) \div places
       IN  IF ~Succeeded(response)
           THEN /\ pc' = "ValueError"
                /\ UNCHANGED <<distances, times, start_row>>
           ELSE /\ distances' = distances \o DistanceRows(response.results, done, places)
                /\ times' = times \o TimeRows(response.results, done, places)
                /\ IF bad = 0
                   THEN /\ start_row' = AfterBatch(start_row, places)
                        /\ pc' = "post"
                   ELSE /\ pc' = IF bad > Len(response.results) THEN "IndexError"
                                 ELSE "ValueError"
                        /\ UNCHANGED start_row
    /\ UNCHANGED <<vehicle_types, vehicles, demand, sheet, row, route, routes,
                   total_delivered, stop_ind, removed, found, looked, places, requests,
                   book, imported, str_dict, int_dict>>

\* lines 523 and 583: every location has been an origin
ReturnMatrices ==
    /\ pc = "post"
    /\ start_row >= places
    /\ pc' = "return"
    /\ UNCHANGED <<vehicle_types, vehicles, demand, sheet, row, route, routes,
                   total_delivered, stop_ind, removed, found, looked, places, start_row,
                   distances, times, requests, responses, book, imported, str_dict,
                   int_dict>>

\* the responses that may arrive now
Arriving == IF pc = "wait" THEN ResponsesTo(requests[Len(requests)]) ELSE {}

NextPull ==
    \/ EnterPull
    \/ PostRequest
    \/ \E response \in Arriving : ReceiveResponse(response)
    \/ ReturnMatrices

SpecPull == InitPull /\ [][NextPull]_vars

(* ------------- save_matrix_input_data, import_matrix_input_data --------- *)

\* A worksheet is the list of its rows, all of the width of the sheet; a cell
\* without a value reads as None.
Width(ws) == IF ws = <<>> THEN 0 ELSE Len(ws[1])

max(a, b) == IF a > b THEN a ELSE b

\* ws.cell(row, column).value, rows and columns counted from 1
CellOf(ws, r, c) == IF r <= Len(ws) /\ c <= Width(ws) THEN ws[r][c] ELSE None

\* lines 632-633 and 641-642: the name of the location with the given index
NameCell(index) == [cls |-> "str", location |-> index]

\* lines 643-649: the value put down for row and col (counted from 0)
ValuePlain(matrix, r, c) == matrix[r + 1][c + 1]
Value(matrix, r, c) ==
    IF r = c THEN matrix[r + 1][1] + matrix[1][r + 1]
    ELSE matrix[r + 1][c + 1]

\* lines 626-652: the sheet after the names and values of a matrix of n rows
\* and columns have been put into it; the other cells stay as they were
Written(ws, matrix, n) ==
    [r \in 1..max(Len(ws), n + 1) |->
        [c \in 1..max(Width(ws), n + 1) |->
            IF r = 1 /\ c \in 2..(n + 1) THEN NameCell(c - 2)
            ELSE IF c = 1 /\ r \in 2..(n + 1) THEN NameCell(r - 2)
            ELSE IF r \in 2..(n + 1) /\ c \in 2..(n + 1) THEN Value(matrix, r - 2, c - 2)
            ELSE CellOf(ws, r, c)]]

\* lines 611-616: the values of all rows and cells, less the first row and
\* the first column
Cut(ws) == [r \in 1..(Len(ws) - 1) |-> [c \in 1..(Width(ws) - 1) |-> ws[r + 1][c + 1]]]

\* a sheet that holds a matrix of s locations from an earlier save
Earlier(s, value) ==
    IF s = 0 THEN <<>>
    ELSE [r \in 1..(s + 1) |->
            [c \in 1..(s + 1) |->
                IF r = 1 /\ c = 1 THEN None
                ELSE IF r = 1 THEN NameCell(c - 2)
                ELSE IF c = 1 THEN NameCell(r - 2)
                ELSE value]]

\* the matrices that are saved: distances with entries 1 and 2, times as a
\* multiple of the distance the other way round plus 10
MatrixEntries == {1, 2}
Speeds == {1, 3}
TimesOf(matrix, speed) ==
    [i \in 1..Len(matrix) |-> [j \in 1..Len(matrix) |-> speed * matrix[j][i] + 10]]

InitFile ==
    /\ vehicle_types = <<>>
    /\ vehicles = <<>>
    /\ demand = [i \in 1..Len(locations) |-> 0]
    /\ sheet = <<>>
    /\ row = 2
    /\ route = None
    /\ routes = <<>>
    /\ total_delivered = 0
    /\ stop_ind = 0
    /\ removed = [i \in 1..Len(locations) |-> 0]
    /\ found = None
    /\ looked = None
    /\ places \in 1..MaxPlaces
    /\ start_row = 0
    /\ distances \in [1..places -> [1..places -> MatrixEntries]]
    /\ \E speed \in Speeds : times = TimesOf(distances, speed)
    /\ requests = <<>>
    /\ responses = <<>>
    /\ \E s \in 0..(MaxPlaces + 1) :
          book = [Distances |-> Earlier(s, 7), Times |-> Earlier(s, 8)]
    /\ imported = None
    /\ str_dict = None
    /\ int_dict = None
    /\ pc = "save"

\* lines 621-654
save_matrix_input_data ==
    /\ pc = "save"
    /\ book' = [Distances |-> Written(book.Distances, distances, Len(distances)),
                Times |-> Written(book.Times, times, Len(distances))]
    /\ pc' = "import"
    /\ UNCHANGED <<vehicle_types, vehicles, demand, sheet, row, route, routes,
                   total_delivered, stop_ind, removed, found, looked, places, start_row,
                   distances, times, requests, responses, imported, str_dict, int_dict>>

\* lines 584-618
import_matrix_input_data ==
    /\ pc = "import"
    /\ imported' = [distances |-> Cut(book.Distances), times |-> Cut(book.Times)]
    /\ pc' = "imported"
    /\ UNCHANGED <<vehicle_types, vehicles, demand, sheet, row, route, routes,
                   total_delivered, stop_ind, removed, found, looked, places, start_row,
                   distances, times, requests, responses, book, str_dict, int_dict>>

NextFile == save_matrix_input_data \/ import_matrix_input_data

SpecFile == InitFile /\ [][NextFile]_vars

(* --------------------------- load_archive_routes ------------------------ *)

\* A persisted stop is the pair [location index, delivered] of line 344, a
\* route the list of its stops, a tour a list of routes.
StopPairs == {<<index, delivered>> : index \in {1, 2}, delivered \in {0, 1, 2}}
RouteLists == UNION {[1..n -> StopPairs] : n \in 0..MaxStops}

\* int(vehicle_type) for the keys of the persisted mapping
int_of_key == [key \in {"0", "1"} |-> IF key = "0" THEN 0 ELSE 1]

\* list.pop(index), index counted from 0
pop(list, index) ==
    [p \in 1..(Len(list) - 1) |-> IF p <= index THEN list[p] ELSE list[p + 1]]

\* lines 376-381: the route after the while loop that began at index
RECURSIVE WhileIndex(_, _)
WhileIndex(list, index) ==
    IF index < Len(list)
    THEN IF list[index + 1][2] = 0
         THEN WhileIndex(pop(list, index), index + 1)
         ELSE WhileIndex(list, index + 1)
    ELSE list

InitReload ==
    /\ vehicle_types = <<>>
    /\ vehicles = <<>>
    /\ demand = [i \in 1..Len(locations) |-> 0]
    /\ sheet = <<>>
    /\ row = 2
    /\ route = None
    /\ routes = <<>>
    /\ total_delivered = 0
    /\ stop_ind = 0
    /\ removed = [i \in 1..Len(locations) |-> 0]
    /\ found = None
    /\ looked = None
    /\ places = 0
    /\ start_row = 0
    /\ distances = <<>>
    /\ times = <<>>
    /\ requests = <<>>
    /\ responses = <<>>
    /\ book = None
    /\ imported = None
    /\ \E first \in RouteLists, second \in {<<>>, <<<<1, 0>>, <<2, 0>>, <<1, 2>>>>} :
          str_dict = [key \in {"0", "1"} |->
                         IF key = "0" THEN <<first>> ELSE <<second, first>>]
    /\ int_dict = None
    /\ pc = "load"

\* lines 367-384
load_archive_routes ==
    /\ pc = "load"
    /\ int_dict' = [vehicle_type \in {int_of_key[key] : key \in DOMAIN str_dict} |->
                       LET key == CHOOSE k \in DOMAIN str_dict : int_of_key[k] = vehicle_type
                           tour == str_dict[key]
                       IN  [r \in 1..Len(tour) |-> WhileIndex(tour[r], 0)]]
    /\ pc' = "return"
    /\ UNCHANGED <<vehicle_types, vehicles, demand, sheet, row, route, routes,
                   total_delivered, stop_ind, removed, found, looked, places, start_row,
                   distances, times, requests, responses, book, imported, str_dict>>

NextReload == load_archive_routes

SpecReload == InitReload /\ [][NextReload]_vars

(* ------------------- read_archive at the end of a route ----------------- *)

\* read_archive taken up where a row with another route code has been read
\* and lines 279-280 have been run for the open route: routes of up to
\* MaxStops stops at the two stores in turn, with a vehicle of the only type
OverflowQuantities == {0, 1, 2, 11}
OverflowCapacities == {1, 2, 30, 32}

\* the stops of a route that begins at the given location
OverflowStops(quantities, location) ==
    [i \in 1..Len(quantities) |->
        Stop(IF i % 2 = 1 THEN location ELSE 5 - location, quantities[i])]

\* the rows that have been read for the stops, the last stop's row first,
\* and the row that ended the route
OverflowSheet(stops) ==
    [i \in 1..(Len(stops) + 1) |->
        IF i <= Len(stops)
        THEN [code |-> 1,
              store |-> locations[stops[Len(stops) + 1 - i].location].store_ids[1],
              demand |-> stops[Len(stops) + 1 - i].delivered]
        ELSE [code |-> 2, store |-> 99, demand |-> 0]]

InitOverflow ==
    /\ \E capacity \in OverflowCapacities :
          vehicle_types = <<[VehicleType(0, capacity) EXCEPT !.vehicles_used = 1]>>
    /\ vehicles = <<Vehicle("HORSE1", 1)>>
    /\ \E n \in 1..MaxStops, location \in {2, 3} :
          \E quantities \in [1..n -> OverflowQuantities] :
              route = [Route(1, Vehicle("HORSE1", 1))
                          EXCEPT !.stops = OverflowStops(quantities, location)]
    /\ sheet = OverflowSheet(route.stops)
    /\ row = 1 + Len(sheet)
    /\ demand = [i \in 1..Len(locations) |->
                    SumDelivered(SelectSeq(route.stops, LAMBDA stop : stop.location = i))]
    /\ routes = <<>>
    /\ total_delivered = SumDelivered(route.stops)
    /\ stop_ind = 0
    /\ removed = [i \in 1..Len(locations) |-> 0]
    /\ pc = "overflow"
    /\ found = None
    /\ BeyondArchiveIdle

NextOverflow ==
    \/ OverflowStep
    \/ \E cells \in ArchiveVehicleCells : CommitAndOpen(cells)
    \/ ReturnRoutes

SpecOverflow == InitOverflow /\ [][NextOverflow]_vars

\* the interpreter goes on as long as there is a statement to run
SpecOverflowFair == SpecOverflow /\ WF_vars(NextOverflow)

(* ------------------------------ properties ----------------------------- *)

\* the rows whose handling (lines 297-336) is complete
Handled == SubSeq(sheet, 1, row - 2)

\* the locations a store code belongs to, and whether it belongs to any
Owners(store) ==
    {i \in 1..Len(locations) :
        \E k \in 1..Len(locations[i].store_ids) : locations[i].store_ids[k] = store}
Resolves(store) == Owners(store) # {}
OwnerOf(store) == CHOOSE i \in Owners(store) : TRUE

\* number of maximal runs of consecutive rows with equal route code
Runs(rows) ==
    Cardinality({i \in 1..Len(rows) : i = 1 \/ rows[i].code # rows[i - 1].code})

\* the routes stored in the mapping, as <<key, position>>
Stored == {ki \in (DOMAIN routes) \X (1..MaxLines + 1) : ki[2] <= Len(routes[ki[1]])}
StoredRoute(ki) == routes[ki[1]][ki[2]]

CapacityOf(r) == vehicle_types[r.vehicle.vehicle_type].capacity

\* sum of the demand of the rows that belong to location i
RECURSIVE RowDemand(_, _)
RowDemand(i, rows) ==
    IF rows = <<>> THEN 0
    ELSE (IF i \in Owners(Head(rows).store) THEN Head(rows).demand ELSE 0)
         + RowDemand(i, Tail(rows))

RECURSIVE UsedTotal(_)
UsedTotal(types) ==
    IF types = <<>> THEN 0 ELSE Head(types).vehicles_used + UsedTotal(Tail(types))

\* C1: every route stored in the mapping delivers at most the capacity of
\* its vehicle's type
C1_StoredWithinCapacity ==
    \A ki \in Stored : SumDelivered(StoredRoute(ki).stops) <= CapacityOf(StoredRoute(ki))

\* a returned mapping holds a route that the overflow loop cut down to capacity
C1_Witness ==
    /\ pc = "return"
    /\ \E ki \in Stored :
          /\ SumDelivered(StoredRoute(ki).stops) = CapacityOf(StoredRoute(ki))
          /\ \E k \in 1..Len(StoredRoute(ki).stops) :
                removed[StoredRoute(ki).stops[k].location] > 0

\* C2: at the end of the sheet the open route is stored as well, so the
\* mapping returned holds one route per maximal run of equal route codes
C2_LastRouteStored ==
    pc = "return" => Cardinality(Stored) = Runs(sheet)

OpenRows ==
    {i \in 1..Len(Handled) :
        /\ \A j \in i..Len(Handled) : Handled[j].code = Handled[Len(Handled)].code
        /\ Resolves(Handled[i].store)}

\* C4: when the open route has two resolved rows, they make one stop with the
\* sum of their demands if they are at the same location, and otherwise two
\* stops, the later row's first
C4_MergeConsecutive ==
    (pc \in {"while", "return"} /\ Cardinality(OpenRows) = 2) =>
        LET a == CHOOSE i \in OpenRows : \A j \in OpenRows : i <= j
            b == CHOOSE i \in OpenRows : \A j \in OpenRows : i >= j
            la == OwnerOf(Handled[a].store)
            lb == OwnerOf(Handled[b].store)
        IN  IF la = lb
            THEN route.stops = <<Stop(la, Handled[a].demand + Handled[b].demand)>>
            ELSE route.stops = <<Stop(lb, Handled[b].demand), Stop(la, Handled[a].demand)>>

\* two rows at one location were merged into a stop of quantity 3
C4_Witness ==
    /\ pc = "while"
    /\ Cardinality(OpenRows) = 2
    /\ Len(route.stops) = 1
    /\ route.stops[1].delivered = 3

\* C5 as stated: when the pass returns, each accumulator is the sum of the
\* demands of the rows of its location
C5_AccumulatorIsRowSum ==
    pc = "return" => \A i \in 1..Len(locations) : demand[i] = RowDemand(i, sheet)

\* C5 amended: each accumulator is the sum of the demands of the handled rows
\* of its location less the units the overflow loop removed from its stops
C5_AccumulatorLessRemoved ==
    \A i \in 1..Len(locations) : demand[i] = RowDemand(i, Handled) - removed[i]

\* the pass returned after the overflow loop took a unit from a location
\* that had two rows
C5_Witness ==
    /\ pc = "return"
    /\ \E i \in 1..Len(locations) :
          /\ removed[i] = 1
          /\ Cardinality({j \in 1..Len(sheet) : i \in Owners(sheet[j].store)}) = 2

\* the registered vehicles with a given name
Named(name) == {i \in 1..Len(vehicles) : vehicles[i].name = name}

\* C6: a registered vehicle named by the horse code is returned, else one
\* named by the trailer code
C6_FallbackChain ==
    found # None =>
        IF Named(found.horse) # {}
        THEN \E i \in Named(found.horse) : found.result = vehicles[i]
        ELSE Named(found.trailer) # {} =>
                \E i \in Named(found.trailer) : found.result = vehicles[i]

Diff(t, carried) == abs(vehicle_types[t].capacity - carried)

\* C7: the vehicle made by find_vehicle bears the horse code and has the
\* first type among those closest in capacity to the load carried
C7_ClosestFirstType ==
    (found # None /\ vehicle_types # <<>>) =>
        /\ found.result.cls = "Vehicle"
        /\ found.result.name = found.horse
        /\ found.result.vehicle_type \in 1..Len(vehicle_types)
        /\ \A j \in 1..Len(vehicle_types) :
              /\ Diff(found.result.vehicle_type, found.carried) <= Diff(j, found.carried)
              /\ j < found.result.vehicle_type =>
                    Diff(found.result.vehicle_type, found.carried) < Diff(j, found.carried)
        /\ ([i \in 1..Len(vehicle_types) |-> vehicle_types[i].capacity] = <<10, 20, 30>>
              /\ found.carried = 18) =>
                 vehicle_types[found.result.vehicle_type].capacity = 20

\* a load of 15 between the capacities 10 and 20 got the type registered first
C7_Witness ==
    /\ found # None
    /\ Len(vehicle_types) = 3
    /\ vehicle_types[1].capacity = 10
    /\ vehicle_types[2].capacity = 20
    /\ found.carried = 15
    /\ found.horse = "HORSE9"
    /\ found.result = Vehicle("HORSE9", 1)

\* C8: without any vehicle type find_vehicle returns no Vehicle
C8_NoTypeNoVehicle ==
    (found # None /\ vehicle_types = <<>>) => found.result.cls # "Vehicle"

\* the open route, if any, as a set
Open == IF route = None THEN {} ELSE {route}

\* C9: the counters of the types add up to the number of routes started, and
\* each type's counter is the number of routes that have a vehicle of the type
C9_UsedOncePerRoute ==
    /\ UsedTotal(vehicle_types) = Runs(Handled)
    /\ \A t \in 1..Len(vehicle_types) :
          vehicle_types[t].vehicles_used =
              Cardinality({ki \in Stored : StoredRoute(ki).vehicle.vehicle_type = t})
              + Cardinality({r \in Open : r.vehicle.vehicle_type = t})

\* a route of three rows was counted once
C9_Witness ==
    /\ pc = "return"
    /\ Len(sheet) = 3
    /\ Runs(sheet) = 1
    /\ \E t \in 1..Len(vehicle_types) : vehicle_types[t].vehicles_used = 1

\* the number of stops in the stored routes and the open route
StopCount ==
    LET RECURSIVE Count(_)
        Count(S) == IF S = {} THEN 0
                    ELSE LET ki == CHOOSE x \in S : TRUE
                         IN  Len(StoredRoute(ki).stops) + Count(S \ {ki})
    IN  Count(Stored) + (IF route = None THEN 0 ELSE Len(route.stops))

\* C10: handling a row whose store code belongs to no location adds no stop,
\* changes no accumulator, leaves an open route of the same code as it is,
\* and the pass goes on
C10_UnresolvedRowDropped ==
    [][(row' = row + 1 /\ ~Resolves(sheet'[row' - 2].store)) =>
          /\ demand' = demand
          /\ StopCount' = StopCount
          /\ (route # None /\ route.code = sheet'[row' - 2].code) => route' = route
          /\ pc' = "while"]_vars

\* the second of three rows was dropped and the pass went on to the third
C10_Witness ==
    /\ pc = "return"
    /\ Len(sheet) = 3
    /\ ~Resolves(sheet[2].store)
    /\ sheet[2].demand > 0
    /\ Len(route.stops) = 2

\* the store codes a cell value stands for
Denoted(value) ==
    IF value.cls = "int" THEN {value.value}
    ELSE IF value.cls = "str" /\ value.value \in DOMAIN int_of_str
         THEN {int_of_str[value.value]}
         ELSE {}

\* the positions of the locations of the last lookup that hold the code
Holders ==
    {i \in 1..Len(looked.locations) :
        \E k \in 1..Len(looked.locations[i].store_ids) :
            looked.locations[i].store_ids[k] \in Denoted(looked.store_code)}

\* C11: find_location returns the first location of the list that holds the
\* code, and None when no location holds it
C11_FirstHolderOrNone ==
    looked # None =>
        IF Holders = {}
        THEN looked.result = NoneRef
        ELSE /\ looked.result \in Holders
             /\ \A i \in Holders : looked.result <= i

\* a code held by two locations of the list got the one listed first, which
\* is not the first of the list
C11_Witness ==
    /\ looked # None
    /\ Cardinality(Holders) = 2
    /\ looked.result = 2
    /\ 3 \in Holders

(* pull_travel_data_from_bing *)

\* the largest number of origins of one request for n locations
BatchRows(n) == max_pairs \div n

\* the origin indices the k-th batch of n locations has
BatchOrigins(k, n) ==
    LET first == (k - 1) * BatchRows(n)
        last == IF k * BatchRows(n) < n THEN k * BatchRows(n) ELSE n
    IN  [p \in 1..(last - first) |-> first + p - 1]

\* the number of batches n locations take
BatchCount(n) == (n + BatchRows(n) - 1) \div BatchRows(n)

\* the k-th response passes the scan of lines 554-573 for the k-th request
Validated(k) ==
    /\ responses[k].statusCode = 200
    /\ \A p \in 1..(Len(requests[k].origins) * places) :
          /\ p <= Len(responses[k].results)
          /\ responses[k].results[p].destinationIndex = (p - 1) % places

\* the positions of the k-th response the scan can come to
Scanned(k) ==
    LET due == Len(requests[k].origins) * places
        got == Len(responses[k].results)
    IN  1..(IF got < due THEN got ELSE due)

\* the k-th response has a destination index other than the one due at its
\* position
Mismatched(k) ==
    \E p \in Scanned(k) : responses[k].results[p].destinationIndex # (p - 1) % places

\* the acquisition has ended with the error of lines 514, 563 and 581 on the
\* k-th request, which is the last one; nothing is returned
FatalAt(k) ==
    /\ pc = "ValueError"
    /\ Len(requests) = k
    /\ Len(responses) = k

\* C12: when floor(max_pairs / number of locations) is 0, the acquisition
\* ends with the fatal error as soon as it has been entered: no request has
\* been issued, no response taken and no row collected.
C12_NoRequestWhenTooMany ==
    (places > 0 /\ BatchRows(places) = 0 /\ pc # "pull")
        => (FatalAt(0) /\ distances = <<>> /\ times = <<>>)

C12_Witness == places = max_pairs + 1 /\ pc = "ValueError" /\ requests = <<>>

\* C13: the k-th request has as origins the consecutive indices from
\* (k - 1) * rowsPerBatch up to k * rowsPerBatch - 1, cut at N - 1, and as
\* destinations all indices 0..N-1; a returned acquisition has issued the
\* requests of all batches; with 5 locations there is never a second
\* request, and the one request has 5 origins.
C13_RequestsPartitionOrigins ==
    /\ \A k \in 1..Len(requests) :
          /\ k <= BatchCount(places)
          /\ requests[k].origins = BatchOrigins(k, places)
          /\ requests[k].destinations = [p \in 1..places |-> p - 1]
    /\ pc = "return" => Len(requests) = BatchCount(places)
    /\ places = 5 =>
          /\ Len(requests) <= 1
          /\ pc \in {"wait", "return"} =>
                (Len(requests) = 1 /\ Len(requests[1].origins) = 5)

C13_Witness ==
    /\ pc = "return"
    /\ places = 51
    /\ Len(requests) = 2
    /\ Len(requests[1].origins) = 49
    /\ requests[2].origins = <<49, 50>>

\* C14: in every request the number of origins times the number of
\* destinations is at most max_pairs.
C14_PairsWithinLimit ==
    \A k \in 1..Len(requests) :
        Len(requests[k].origins) * Len(requests[k].destinations) <= max_pairs

C14_Witness ==
    \E k \in 1..Len(requests) :
        /\ Len(requests[k].origins) * Len(requests[k].destinations) = max_pairs - 1
        /\ Len(requests) > k

\* C15: there is never more than one request without its response, and a
\* step that issues a request issues one, when every earlier request has its
\* response and that response has passed the scan; the new request begins
\* with the origin right after the last origin of the request before it (with
\* origin 0 if it is the first).
C15_OneRequestAtATime ==
    [][/\ Len(requests') - Len(responses') \in {0, 1}
       /\ requests' # requests =>
             /\ requests' = Append(requests, requests'[Len(requests')])
             /\ Len(responses) = Len(requests)
             /\ \A k \in 1..Len(requests) : Validated(k)
             /\ requests'[Len(requests')].origins[1] =
                   IF requests = <<>> THEN 0
                   ELSE LET before == requests[Len(requests)].origins
                        IN  before[Len(before)] + 1]_vars

C15_Witness ==
    /\ Len(requests) = 2
    /\ Len(responses) = 1
    /\ pc = "wait"
    /\ Validated(1)

\* C16: a response with a status other than 200 is the last event of the
\* acquisition: it has ended with the fatal error, nothing is returned, the
\* failed request is not issued again and no other request follows.
C16_FailureStatusIsFatal ==
    \A k \in 1..Len(responses) :
        responses[k].statusCode # 200 => FatalAt(k)

C16_Witness ==
    /\ Len(responses) = 2
    /\ responses[2].statusCode = 429
    /\ responses[2].results # <<>>
    /\ pc = "ValueError"
    /\ Len(distances) = 49

\* C17: a response with status 200 in which a result has a destination index
\* other than the one due at its position is the last event of the
\* acquisition: it has ended with the fatal error, nothing is returned, the
\* request is not issued again and no other request follows.
C17_IndexMismatchIsFatal ==
    \A k \in 1..Len(responses) :
        (responses[k].statusCode = 200 /\ Mismatched(k)) => FatalAt(k)

C17_Witness ==
    /\ Len(responses) = 2
    /\ responses[2].statusCode = 200
    /\ Mismatched(2)
    /\ pc = "ValueError"
    /\ Len(distances) = 50

C19_RoundTripThroughDepot ==
    pc = "imported" =>
        \A i, j \in 1..places :
            /\ imported.distances[i][j] =
                  IF i = j THEN distances[i][1] + distances[1][i] ELSE distances[i][j]
            /\ imported.times[i][j] =
                  IF i = j THEN times[i][1] + times[1][i] ELSE times[i][j]

C19_Witness ==
    /\ pc = "imported"
    /\ places = 2
    /\ distances[2][1] = 1
    /\ distances[1][2] = 2
    /\ imported.distances[2][2] = 3
    /\ imported.distances[1][2] = 2
    /\ imported.times[2][2] = times[2][1] + times[1][2]
    /\ imported.times[2][2] # times[2][2]

(* load_archive_routes *)

\* C20: every route that load_archive_routes returns is the persisted route
\* without its stops of quantity 0: the stops of another quantity, all of
\* them and in their order, and no stop of quantity 0.
C20_OnlyDeliveringStopsRemain ==
    pc = "return" /\ int_dict # None =>
        \A key \in DOMAIN str_dict :
            /\ Len(int_dict[int_of_key[key]]) = Len(str_dict[key])
            /\ \A r \in 1..Len(str_dict[key]) :
                  LET Delivers(stop) == stop[2] # 0
                  IN  int_dict[int_of_key[key]][r] = SelectSeq(str_dict[key][r], Delivers)

(* read_archive at the end of a route *)

\* the quantities of the stops of a route, first stop first
Quantities(r) == [k \in 1..Len(r.stops) |-> r.stops[k].delivered]

\* the quantities the rows of the open route were read with, in the order of
\* its stops: the row before the one that ended the route belongs to the
\* first stop
ReadQuantities == [k \in 1..(Len(sheet) - 1) |-> sheet[Len(sheet) - k].demand]

\* the units the overflow loop has removed
RemovedUnits ==
    LET RECURSIVE Units(_)
        Units(i) == IF i = 0 THEN 0 ELSE removed[i] + Units(i - 1)
    IN  Units(Len(locations))

\* C21: every iteration of the overflow loop runs with the total above the
\* capacity, takes one unit from the stop at the index if that stop has more
\* than one and leaves the route as it is otherwise, and moves the index to
\* the next stop, from the last stop to the first; the loop is left with the
\* total at most the capacity, and exactly the capacity if a unit was
\* removed; the stops 11, 11, 11 under capacity 30 are left as 10, 10, 10
\* with the index back at the first stop, under capacity 32 as 10, 11, 11
\* with the index at the second stop.
C21_CyclicUnitRemoval ==
    [][/\ (pc = "overflow" /\ pc' = "overflow") =>
             /\ total_delivered > CapacityOf(route)
             /\ stop_ind' = (stop_ind + 1) % Len(route.stops)
             /\ route'.stops =
                   IF route.stops[stop_ind + 1].delivered > 1
                   THEN [route.stops EXCEPT ![stop_ind + 1].delivered = @ - 1]
                   ELSE route.stops
             /\ total_delivered' = SumDelivered(route'.stops)
       /\ (pc = "overflow" /\ pc' \notin {"overflow", "IndexError"}) =>
             /\ total_delivered <= CapacityOf(route)
             /\ total_delivered = SumDelivered(route.stops)
             /\ RemovedUnits > 0 => total_delivered = CapacityOf(route)
             /\ (ReadQuantities = <<11, 11, 11>> /\ CapacityOf(route) = 30) =>
                   (Quantities(route) = <<10, 10, 10>> /\ stop_ind = 0 /\ RemovedUnits = 3)
             /\ (ReadQuantities = <<11, 11, 11>> /\ CapacityOf(route) = 32) =>
                   (Quantities(route) = <<10, 11, 11>> /\ stop_ind = 1)]_vars

\* the route read as 11, 11, 11 is stored as 10, 10, 10 under capacity 30
C21_Witness ==
    \E ki \in Stored :
        /\ Quantities(StoredRoute(ki)) = <<10, 10, 10>>
        /\ CapacityOf(StoredRoute(ki)) = 30
        /\ RemovedUnits = 3

\* C22: the overflow loop that has been entered for a route is left again.
C22_OverflowLoopEnds == (pc = "overflow") ~> (pc # "overflow")

(* read_archive: the order of stops and routes *)

\* the members of a set of numbers in rising order
RECURSIVE Rising(_)
Rising(S) ==
    IF S = {} THEN <<>>
    ELSE LET least == CHOOSE i \in S : \A j \in S : i <= j
         IN  <<least>> \o Rising(S \ {least})

\* the locations of the resolved rows of the open route in the order read,
\* a row at the location of the resolved row before it left out
OpenVisits ==
    LET at == Rising(OpenRows)
        Place(k) == OwnerOf(Handled[at[k]].store)
        new == {k \in 1..Len(at) : k = 1 \/ Place(k) # Place(k - 1)}
        first == Rising(new)
    IN  [k \in 1..Len(first) |-> Place(first[k])]

Reversed(list) == [k \in 1..Len(list) |-> list[Len(list) + 1 - k]]

\* C23: handling a resolved row that is not merged puts its stop before the
\* stops the route had; so the stops of the open route, up to and including
\* its finalization, are at the locations of its rows in the reverse of the
\* order read, and the route is stored with its stops in that order.
C23_StopsInReverseOfReading ==
    /\ [](route # None /\ pc \in {"while", "overflow", "return"} =>
            [k \in 1..Len(route.stops) |-> route.stops[k].location] = Reversed(OpenVisits))
    /\ [][/\ (row' = row + 1 /\ Resolves(sheet'[row' - 2].store)) =>
                LET line == sheet'[row' - 2]
                    before == IF route # None /\ route.code = line.code
                              THEN route.stops ELSE <<>>
                IN  (before = <<>> \/ before[1].location # OwnerOf(line.store)) =>
                        route'.stops = <<Stop(OwnerOf(line.store), line.demand)>> \o before
          /\ routes' # routes =>
                \E ki \in Stored' :
                    /\ StoredRoute(ki)' = route
                    /\ [k \in 1..Len(route.stops) |-> route.stops[k].location]
                          = Reversed(OpenVisits)]_vars

\* a route whose rows were read at Aurora and then at Bergvliet is stored
\* with the stop at Bergvliet first
C23_Witness ==
    /\ Len(sheet) = 3
    /\ sheet[1].store = 11
    /\ sheet[2].store = 21
    /\ \E ki \in Stored :
          /\ Len(StoredRoute(ki).stops) = 2
          /\ locations[StoredRoute(ki).stops[1].location].name = "Bergvliet"
          /\ locations[StoredRoute(ki).stops[2].location].name = "Aurora"

\* the routes stored under a key, none if the key is not in the mapping
Under(rs, key) == IF key \in DOMAIN rs THEN rs[key] ELSE <<>>

\* C24: every route in the mapping is stored under the data_index of the
\* type of its vehicle; the step that finalizes a route puts it, once, behind
\* the routes already stored under that key and leaves the routes of the
\* other keys as they are, and no other step changes the mapping.
C24_StoredUnderTypeInOrder ==
    /\ [](\A ki \in Stored :
            vehicle_types[StoredRoute(ki).vehicle.vehicle_type].data_index = ki[1])
    /\ [][routes' # routes =>
            LET key == vehicle_types[route.vehicle.vehicle_type].data_index
            IN  /\ pc = "overflow"
                /\ Under(routes', key) = Append(Under(routes, key), route)
                /\ \A k \in (DOMAIN routes') \ {key} :
                      k \in DOMAIN routes /\ routes'[k] = routes[k]
                /\ DOMAIN routes \subseteq DOMAIN routes']_vars

\* two routes of one type are stored in the order in which they were read
C24_Witness ==
    /\ Len(sheet) = 3
    /\ sheet[1].code # sheet[2].code
    /\ \E key \in DOMAIN routes :
          /\ Len(routes[key]) = 2
          /\ routes[key][1].code = sheet[1].code
          /\ routes[key][2].code = sheet[2].code

(* read_archive: accumulators and frame *)

\* the quantity the stops of a list deliver to location i
DeliveredTo(i, stops) ==
    SumDelivered(SelectSeq(stops, LAMBDA stop : stop.location = i))

\* the quantity the stops of the stored routes deliver to location i
StoredTo(i) ==
    LET RECURSIVE Sum(_)
        Sum(S) == IF S = {} THEN 0
                  ELSE LET ki == CHOOSE x \in S : TRUE
                       IN  DeliveredTo(i, StoredRoute(ki).stops) + Sum(S \ {ki})
    IN  Sum(Stored)

\* C25: in every state of the pass the accumulator of each location is the
\* sum of the quantities of the stops at that location in the stored routes
\* and in the open route.
C25_AccumulatorIsStopSum ==
    [](\A i \in 1..Len(locations) :
          demand[i] = StoredTo(i) + (IF route = None THEN 0 ELSE DeliveredTo(i, route.stops)))

\* the pass returned with a stored route whose two rows at Aurora were
\* merged and cut down by the overflow loop, and an open route with a stop at
\* Aurora as well
C25_Witness ==
    /\ pc = "return"
    /\ Len(sheet) = 3
    /\ sheet[1].store = 11
    /\ sheet[2].store = 11
    /\ sheet[3].store = 11
    /\ sheet[3].demand = 1
    /\ removed[2] > 0
    /\ \E ki \in Stored : Len(StoredRoute(ki).stops) = 1
    /\ demand[2] = StoredTo(2) + 1

\* the total the rows of the open route were read with
RECURSIVE Total(_)
Total(quantities) ==
    IF quantities = <<>> THEN 0 ELSE Head(quantities) + Total(Tail(quantities))

\* C26: a route that is finalized with a total of at most the capacity of
\* its vehicle's type keeps the quantities its rows were read with, from the
\* entry of the overflow loop until it is stored, is stored with them, and
\* the accumulators stay at the sums of the rows read: nothing is removed.
C26_WithinCapacityUntouched ==
    /\ []((pc = "overflow" /\ Total(ReadQuantities) <= CapacityOf(route)) =>
            /\ Quantities(route) = ReadQuantities
            /\ \A i \in 1..Len(locations) :
                  demand[i] = RowDemand(i, sheet) /\ removed[i] = 0)
    /\ [][(routes' # routes /\ Total(ReadQuantities) <= CapacityOf(route)) =>
            /\ \E ki \in Stored' :
                  StoredRoute(ki)' = route /\ Quantities(route) = ReadQuantities
            /\ \A i \in 1..Len(locations) :
                  demand'[i] = RowDemand(i, sheet) /\ removed'[i] = 0]_vars

\* a route with exactly the capacity has been stored as it was read
C26_Witness ==
    /\ RemovedUnits = 0
    /\ \E ki \in Stored :
          /\ Quantities(StoredRoute(ki)) = <<1, 1>>
          /\ CapacityOf(StoredRoute(ki)) = 2
          /\ demand[2] = 1
          /\ demand[3] = 1

\* no stop of the list is at the location of the stop after it
NoRepeat(stops) ==
    \A k \in 1..(Len(stops) - 1) :
        locations[stops[k].location].name # locations[stops[k + 1].location].name

\* C27: in every stored route and in the open route no stop is at the
\* location of the stop next to it.
C27_NoAdjacentSameLocation ==
    [](/\ \A ki \in Stored : NoRepeat(StoredRoute(ki).stops)
       /\ route # None => NoRepeat(route.stops))

\* a returned route has one stop for its two rows at Aurora, and the open
\* route, whose row is at Aurora too, has a stop of its own
C27_Witness ==
    /\ pc = "return"
    /\ Len(sheet) = 3
    /\ sheet[1].code = sheet[2].code
    /\ sheet[1].store = 11
    /\ sheet[2].store = 11
    /\ sheet[3].store = 11
    /\ sheet[1].demand = 1
    /\ sheet[2].demand = 1
    /\ \E ki \in Stored :
          /\ Len(StoredRoute(ki).stops) = 1
          /\ StoredRoute(ki).stops[1].delivered <= 2
    /\ Len(route.stops) = 1

(* pull_travel_data_from_bing: what a returned matrix rests on *)

\* the k-th response is the list of the results of its request's origins in
\* the order requested, each with all destinations in turn, and nothing else
OriginMajor(k) ==
    /\ Len(responses[k].results) = Len(requests[k].origins) * places
    /\ \A p \in 1..Len(responses[k].results) :
          /\ responses[k].results[p].originIndex = (p - 1) \div places
          /\ responses[k].results[p].destinationIndex = (p - 1) % places

\* C28: matrices are returned only if every response was the origin-major
\* list of exactly the results asked for, and then every entry is the
\* service's value from the row's location to the column's location.
C28_OnlyOriginMajorAccepted ==
    pc = "return" =>
        /\ \A k \in 1..Len(responses) : OriginMajor(k)
        /\ \A i, j \in 0..(places - 1) :
              /\ distances[i + 1][j + 1] = ServiceDistance(i, j)
              /\ times[i + 1][j + 1] = <<ServiceDuration(i, j), 60>>

====
